---- MODULE Spec2Model ----
(***************************************************************************)
(* Gemgem: the board logic of pygame_gem.py (GemInfo, GameBoard,           *)
(* GameSession, GemGame.fill_board_and_animate, run_game) and of the       *)
(* original main.py, on a scaled-down board.                               *)
(*                                                                         *)
(* A board is squares[x][y]: column x, row y, row 0 at the top.            *)
(* Four specifications:                                                    *)
(*   Spec       run_game, from a freshly constructed session;              *)
(*   SpecBoard  one call of a GameBoard method (or of                      *)
(*              fill_board_and_animate) on a board drawn from InputBoards; *)
(*   SpecMoves  end_game_if_stuck on a board drawn from MoveBoards;        *)
(*   SpecCalls  one call of GemInfo.is_adjacent_to, GemInfo.prepare_swap   *)
(*              or get_gem_at, arcade_gem.py included.                     *)
(* The variable impl says which file is running: "pygame_gem", "main" or,  *)
(* in SpecCalls, "arcade_gem".                                             *)
(***************************************************************************)
EXTENDS Integers, Sequences, FiniteSets, TLC

\* Scaled-down board dimensions and piece count (8, 8 and 7 in the source).
BOARD_WIDTH == 4
BOARD_HEIGHT == 3
NUM_GEM_IMAGES == 5

\* Input boards of SpecBoard: at most MaxPieces pieces, or no empty cell,
\* with kinds 0..MaxInputKind.
MaxPieces == 3
MaxInputKind == 1

\* Input boards of SpecMoves: no empty cell, kinds 0..MaxMoveKind.
MaxMoveKind == 2

\* random.choice draws: the n-th draw of a call is a + n*d, a <= MaxStart,
\* d <= MaxStride.
MaxStart == 1
MaxStride == 1

\* Bounds of run_game: swap attempts, cascade passes per swap, timer ticks.
MaxTurns == 2
MaxPasses == 2
MaxTicks == 1

EMPTY_SPACE == -1
\* Python's None, as returned by get_gem_at off the board.
None == -2
ROW_ABOVE_BOARD == BOARD_HEIGHT + 1

X == 0 .. (BOARD_WIDTH - 1)
Y == 0 .. (BOARD_HEIGHT - 1)
Impls == {"pygame_gem", "main"}

\* a Python list as a function on 0 .. len-1, from the sequence of its items
RECURSIVE ListFrom(_, _)
ListFrom(items, k) ==
    IF k = Len(items)
    THEN (k - 1) :> items[k]
    ELSE ((k - 1) :> items[k]) @@ ListFrom(items, k + 1)

List(items) == ListFrom(items, 1)

\* [EMPTY_SPACE] * n
Blanks(n) == [k \in 1 .. n |-> EMPTY_SPACE]

\* GameBoard.__post_init__ / get_blank_board
BlankBoard == List([x \in 1 .. BOARD_WIDTH |-> List(Blanks(BOARD_HEIGHT))])

SetCell(b, x, y, v) == [b EXCEPT ![x][y] = v]

\* The loops below carry their state from one iteration to the next as
\*     CHOOSE r \in {Rest(s) : s \in {Step(state)}} : TRUE
\* which is Rest(Step(state)) with Step(state) evaluated once.

\* copy.deepcopy(self): the object the name board_copy refers to, a fresh one
\* and not the object that self refers to
deepcopy_alias(self) == "self"

deepcopy(self) == "board_copy"

\* the caller's board after a method that copied self with deepcopy and made
\* all of its writes through board_copy, which ended as written
CallerBoard(self, written) ==
    IF deepcopy(self) = "self" THEN written ELSE self

get_gem_at(b, x, y) ==
    IF x < 0 \/ y < 0 \/ x >= BOARD_WIDTH \/ y >= BOARD_HEIGHT
    THEN None
    ELSE b[x][y]

\* arcade_gem.py: "if 0 < x < BOARD_WIDTH and 0 < y < BOARD_HEIGHT"
arcade_get_gem_at(b, x, y) ==
    IF 0 < x /\ x < BOARD_WIDTH /\ 0 < y /\ y < BOARD_HEIGHT
    THEN b[x][y]
    ELSE None

(***************************************************************************)
(* can_make_move                                                           *)
(***************************************************************************)
one_off_patterns ==
    << << <<0, 1>>, <<1, 0>>, <<2, 0>> >>,
       << <<0, 1>>, <<1, 1>>, <<2, 0>> >>,
       << <<0, 0>>, <<1, 1>>, <<2, 0>> >>,
       << <<0, 1>>, <<1, 0>>, <<2, 1>> >>,
       << <<0, 0>>, <<1, 0>>, <<2, 1>> >>,
       << <<0, 0>>, <<1, 1>>, <<2, 1>> >>,
       << <<0, 0>>, <<0, 2>>, <<0, 3>> >>,
       << <<0, 0>>, <<0, 1>>, <<0, 3>> >> >>

\* a == b == c != None, the Python comparison chain
ChainEqNotNone(a, b, c) == a = b /\ b = c /\ c # None

\* PatternMatches without the test of the pattern with x and y exchanged
PatternMatches_unrotated(b, x, y, pat) ==
    ChainEqNotNone(get_gem_at(b, x + pat[1][1], y + pat[1][2]),
                   get_gem_at(b, x + pat[2][1], y + pat[2][2]),
                   get_gem_at(b, x + pat[3][1], y + pat[3][2]))

PatternMatches(b, x, y, pat) ==
    \/ ChainEqNotNone(get_gem_at(b, x + pat[1][1], y + pat[1][2]),
                      get_gem_at(b, x + pat[2][1], y + pat[2][2]),
                      get_gem_at(b, x + pat[3][1], y + pat[3][2]))
    \/ ChainEqNotNone(get_gem_at(b, x + pat[1][2], y + pat[1][1]),
                      get_gem_at(b, x + pat[2][2], y + pat[2][1]),
                      get_gem_at(b, x + pat[3][2], y + pat[3][1]))

can_make_move(b) ==
    \E x \in X, y \in Y, p \in 1 .. Len(one_off_patterns) :
        PatternMatches(b, x, y, one_off_patterns[p])

(***************************************************************************)
(* find_matching_gems.  The scan state is [copy, gems]: board_copy and     *)
(* gems_to_remove.  pygame_gem.py tests and extends a run on self and      *)
(* takes target_gem from board_copy; main.py reads board_copy throughout.  *)
(***************************************************************************)
\* the condition of "look for horizontal / vertical matches" on board rd
IsMatchStart(rd, x, y, dx, dy) ==
    /\ get_gem_at(rd, x, y) = get_gem_at(rd, x + dx, y + dy)
    /\ get_gem_at(rd, x + dx, y + dy) = get_gem_at(rd, x + 2 * dx, y + 2 * dy)
    /\ get_gem_at(rd, x, y) # EMPTY_SPACE

\* the number of iterations of "while get_gem_at(x + offset, y) == target_gem"
RECURSIVE RunLength(_, _, _, _, _, _, _)
RunLength(rd, x, y, dx, dy, target_gem, offset) ==
    IF get_gem_at(rd, x + offset * dx, y + offset * dy) = target_gem
    THEN RunLength(rd, x, y, dx, dy, target_gem, offset + 1)
    ELSE offset

RemoveSet(x, y, dx, dy, n) == [k \in 1 .. n |-> <<x + (k - 1) * dx, y + (k - 1) * dy>>]

CellsOf(gem_set) == {gem_set[k] : k \in 1 .. Len(gem_set)}

\* "b[x][y] = EMPTY_SPACE" for each (x, y) of the list gem_set, in order
RECURSIVE ClearCells(_, _)
ClearCells(b, gem_set) ==
    IF gem_set = <<>>
    THEN b
    ELSE CHOOSE r \in {ClearCells(cleared, Tail(gem_set)) :
                          cleared \in {SetCell(b, Head(gem_set)[1], Head(gem_set)[2],
                                               EMPTY_SPACE)}} : TRUE

\* one "look for ... matches" block of pygame_gem.py at cell (x, y)
ScanDirection(self, st, x, y, dx, dy) ==
    IF IsMatchStart(self, x, y, dx, dy)
    THEN LET target_gem == st.copy[x][y]
             remove_set == RemoveSet(x, y, dx, dy,
                                     RunLength(self, x, y, dx, dy, target_gem, 0))
         IN  [copy |-> ClearCells(st.copy, remove_set),
              gems |-> Append(st.gems, remove_set)]
    ELSE st

RECURSIVE FindFrom(_, _, _)
FindFrom(self, st, i) ==
    IF i = BOARD_WIDTH * BOARD_HEIGHT
    THEN st
    ELSE LET x == i \div BOARD_HEIGHT
             y == i % BOARD_HEIGHT
         IN  CHOOSE r \in {FindFrom(self, vertical, i + 1) :
                           vertical \in {ScanDirection(self, horizontal, x, y, 0, 1) :
                               horizontal \in {ScanDirection(self, st, x, y, 1, 0)}}} : TRUE

find_matching_gems(self) == FindFrom(self, [copy |-> self, gems |-> <<>>], 0).gems

\* the same block of main.py
main_ScanDirection(st, x, y, dx, dy) ==
    IF IsMatchStart(st.copy, x, y, dx, dy)
    THEN LET target_gem == st.copy[x][y]
             remove_set == RemoveSet(x, y, dx, dy,
                                     RunLength(st.copy, x, y, dx, dy, target_gem, 0))
         IN  [copy |-> ClearCells(st.copy, remove_set),
              gems |-> Append(st.gems, remove_set)]
    ELSE st

RECURSIVE main_FindFrom(_, _)
main_FindFrom(st, i) ==
    IF i = BOARD_WIDTH * BOARD_HEIGHT
    THEN st
    ELSE LET x == i \div BOARD_HEIGHT
             y == i % BOARD_HEIGHT
         IN  CHOOSE r \in {main_FindFrom(vertical, i + 1) :
                           vertical \in {main_ScanDirection(horizontal, x, y, 0, 1) :
                               horizontal \in {main_ScanDirection(st, x, y, 1, 0)}}} : TRUE

main_find_matching_gems(board_) ==
    main_FindFrom([copy |-> board_, gems |-> <<>>], 0).gems

(***************************************************************************)
(* pull_down_all_gems                                                      *)
(***************************************************************************)
\* gems_in_column: the non-empty values of rows y .. BOARD_HEIGHT-1, top first
RECURSIVE GemsInColumn(_, _)
GemsInColumn(col, y) ==
    IF y = BOARD_HEIGHT
    THEN <<>>
    ELSE IF col[y] # EMPTY_SPACE
         THEN <<col[y]>> \o GemsInColumn(col, y + 1)
         ELSE GemsInColumn(col, y + 1)

\* PulledColumn with the two operands of "+" exchanged
PulledColumn_top(col) ==
    LET gems_in_column == GemsInColumn(col, 0)
    IN  List(gems_in_column \o Blanks(BOARD_HEIGHT - Len(gems_in_column)))

\* ([EMPTY_SPACE] * (BOARD_HEIGHT - len(gems_in_column))) + gems_in_column
PulledColumn(col) ==
    LET gems_in_column == GemsInColumn(col, 0)
    IN  List(Blanks(BOARD_HEIGHT - Len(gems_in_column)) \o gems_in_column)

pull_down_all_gems(b) == List([k \in 1 .. BOARD_WIDTH |-> PulledColumn(b[k - 1])])

(***************************************************************************)
(* get_drop_slots.  random.choice(seq) is seq[r % len(seq)] for a raw draw  *)
(* r; the draws of one call come from a tape [a, d]: draw n is a + n*d.    *)
(* The scan state is [copy, slots, n, error, log]: board_copy, drop_slots, *)
(* the number of draws made, whether random.choice raised IndexError on an *)
(* empty list, and (history) one entry per generated piece with the        *)
(* scratch grid at the moment of the choice.                               *)
(***************************************************************************)
Tapes == [a : 0 .. MaxStart, d : 0 .. MaxStride]

Draw(tape, n) == tape.a + n * tape.d

random_choice(seq, r) == seq[(r % Len(seq)) + 1]

\* list(range(len(gem_images)))
\* list(range(len(gem_images))) with one image fewer than the source asserts
AllGems_four == [k \in 1 .. 4 |-> k - 1]

AllGems == [k \in 1 .. NUM_GEM_IMAGES |-> k - 1]

InSeq(v, seq) == \E k \in 1 .. Len(seq) : seq[k] = v

\* "if neighbor_gem is not None and neighbor_gem in possible_gems: remove"
NarrowDown(possible_gems, neighbor_gem) ==
    IF neighbor_gem # None /\ InSeq(neighbor_gem, possible_gems)
    THEN SelectSeq(possible_gems, LAMBDA g : g # neighbor_gem)
    ELSE possible_gems

\* possible_gems after the loop over ((0, -1), (1, 0), (0, 1), (-1, 0)),
\* the neighbours read from board rd
NarrowedBy(up, right, down, left) ==
    NarrowDown(NarrowDown(NarrowDown(NarrowDown(AllGems, up), right), down), left)

PossibleGems(rd, x, y) ==
    NarrowedBy(get_gem_at(rd, x, y - 1), get_gem_at(rd, x + 1, y),
               get_gem_at(rd, x, y + 1), get_gem_at(rd, x - 1, y))

\* the body of "if board_copy[x][y] == EMPTY_SPACE", neighbours read from rd
FillCell(rd, st, x, y, tape) ==
    LET possible_gems == PossibleGems(rd, x, y)
    IN  IF possible_gems = <<>>
        THEN [st EXCEPT !.error = TRUE]
        ELSE LET new_gem == random_choice(possible_gems, Draw(tape, st.n))
             IN  [copy  |-> SetCell(st.copy, x, y, new_gem),
                  slots |-> [st.slots EXCEPT ![x] = Append(@, new_gem)],
                  n     |-> st.n + 1,
                  error |-> st.error,
                  log   |-> Append(st.log, [x |-> x, y |-> y, gem |-> new_gem,
                                            scratch |-> st.copy])]

\* pygame_gem.py: neighbor_gem = self.get_gem_at(...)
RECURSIVE DropFrom(_, _, _, _)
DropFrom(self, st, i, tape) ==
    IF i = BOARD_WIDTH * BOARD_HEIGHT \/ st.error
    THEN st
    ELSE LET x == i \div BOARD_HEIGHT
             y == (BOARD_HEIGHT - 1) - (i % BOARD_HEIGHT)
         IN  CHOOSE r \in {DropFrom(self, filled, i + 1, tape) :
                           filled \in {IF st.copy[x][y] = EMPTY_SPACE
                                       THEN FillCell(self, st, x, y, tape)
                                       ELSE st}} : TRUE

\* main.py: neighbor_gem = get_gem_at(board_copy, ...)
RECURSIVE main_DropFrom(_, _, _)
main_DropFrom(st, i, tape) ==
    IF i = BOARD_WIDTH * BOARD_HEIGHT \/ st.error
    THEN st
    ELSE LET x == i \div BOARD_HEIGHT
             y == (BOARD_HEIGHT - 1) - (i % BOARD_HEIGHT)
         IN  CHOOSE r \in {main_DropFrom(filled, i + 1, tape) :
                           filled \in {IF st.copy[x][y] = EMPTY_SPACE
                                       THEN FillCell(st.copy, st, x, y, tape)
                                       ELSE st}} : TRUE

DropStart(b) ==
    [copy  |-> pull_down_all_gems(b),
     slots |-> List([k \in 1 .. BOARD_WIDTH |-> <<>>]),
     n     |-> 0,
     error |-> FALSE,
     log   |-> <<>>]

\* the scan started from a blank board instead of the copy of the board
get_drop_slots_blank(self, tape) == DropFrom(self, DropStart(BlankBoard), 0, tape)

get_drop_slots(self, tape) == DropFrom(self, DropStart(self), 0, tape)

main_get_drop_slots(board_, tape) == main_DropFrom(DropStart(board_), 0, tape)

(***************************************************************************)
(* get_dropping_gems, move_gems and one iteration of the loop of           *)
(* fill_board_and_animate                                                  *)
(***************************************************************************)
GemInfo(image_num, x, y) == [image_num |-> image_num, x |-> x, y |-> y, direction |-> "DOWN"]

RECURSIVE DroppingFrom(_, _)
DroppingFrom(st, i) ==
    IF i = BOARD_WIDTH * (BOARD_HEIGHT - 1)
    THEN st
    ELSE LET x == i \div (BOARD_HEIGHT - 1)
             y == (BOARD_HEIGHT - 2) - (i % (BOARD_HEIGHT - 1))
         IN  CHOOSE r \in {DroppingFrom(scanned, i + 1) :
                 scanned \in {IF st.copy[x][y + 1] = EMPTY_SPACE /\ st.copy[x][y] # EMPTY_SPACE
                              THEN [copy |-> SetCell(st.copy, x, y, EMPTY_SPACE),
                                    gems |-> Append(st.gems, GemInfo(st.copy[x][y], x, y))]
                              ELSE st}} : TRUE

\* get_dropping_gems without "board_copy[x][y] = EMPTY_SPACE": a piece resting on
\* a dropping piece is not reported
get_dropping_gems_resting(b) ==
    SelectSeq([i \in 1 .. BOARD_WIDTH * (BOARD_HEIGHT - 1) |->
                  LET x == (i - 1) \div (BOARD_HEIGHT - 1)
                      y == (BOARD_HEIGHT - 2) - ((i - 1) % (BOARD_HEIGHT - 1))
                  IN  GemInfo(b[x][y], x, y)],
              LAMBDA gem : b[gem.x][gem.y + 1] = EMPTY_SPACE /\ gem.image_num # EMPTY_SPACE)

get_dropping_gems(b) == DroppingFrom([copy |-> b, gems |-> <<>>], 0).gems

\* "board_copy[gem.x][gem.y] = EMPTY_SPACE" for each gem that is on the board
RECURSIVE ClearGems(_, _)
ClearGems(b, gems) ==
    IF gems = <<>>
    THEN b
    ELSE CHOOSE r \in {ClearGems(cleared, Tail(gems)) :
                          cleared \in {IF Head(gems).y # ROW_ABOVE_BOARD
                                       THEN SetCell(b, Head(gems).x, Head(gems).y,
                                                    EMPTY_SPACE)
                                       ELSE b}} : TRUE

get_board_copy_minus_gems(self, gems) == ClearGems(self, gems)

move_x(direction) == IF direction = "LEFT" THEN -1 ELSE IF direction = "RIGHT" THEN 1 ELSE 0

move_y(direction) == IF direction = "DOWN" THEN 1 ELSE IF direction = "UP" THEN -1 ELSE 0

\* MoveGem without "self.squares[gem.x][gem.y] = EMPTY_SPACE"
MoveGem_copy(b, gem) ==
    IF gem.y # ROW_ABOVE_BOARD
    THEN SetCell(b, gem.x + move_x(gem.direction), gem.y + move_y(gem.direction),
                 gem.image_num)
    ELSE SetCell(b, gem.x, 0, gem.image_num)

MoveGem(b, gem) ==
    IF gem.y # ROW_ABOVE_BOARD
    THEN SetCell(SetCell(b, gem.x, gem.y, EMPTY_SPACE),
                 gem.x + move_x(gem.direction), gem.y + move_y(gem.direction),
                 gem.image_num)
    ELSE SetCell(b, gem.x, 0, gem.image_num)

RECURSIVE move_gems(_, _)
move_gems(b, moving_gems) ==
    IF moving_gems = <<>>
    THEN b
    ELSE CHOOSE r \in {move_gems(moved, Tail(moving_gems)) :
                          moved \in {MoveGem(b, Head(moving_gems))}} : TRUE

\* [[]] * BOARD_WIDTH
NoDropSlots == List([k \in 1 .. BOARD_WIDTH |-> <<>>])

\* the pieces staged above the board: one per column with a pending entry
RECURSIVE StagedGems(_, _)
StagedGems(slots, x) ==
    IF x = BOARD_WIDTH
    THEN <<>>
    ELSE IF Len(slots[x]) # 0
         THEN <<GemInfo(slots[x][1], x, ROW_ABOVE_BOARD)>> \o StagedGems(slots, x + 1)
         ELSE StagedGems(slots, x + 1)

\* the board after one iteration of "while drop_slots != [[]] * BOARD_WIDTH"
\* "board[x][0] = drop_slot[0]" for every column x, x+1, ... with a pending entry
RECURSIVE LandStaged(_, _, _)
LandStaged(b, slots, x) ==
    IF x = BOARD_WIDTH
    THEN b
    ELSE CHOOSE r \in {LandStaged(landed, slots, x + 1) :
                          landed \in {IF Len(slots[x]) = 0
                                      THEN b
                                      ELSE SetCell(b, x, 0, slots[x][1])}} : TRUE

FillIterationBoard(b, slots) ==
    LandStaged(move_gems(b, get_dropping_gems(b) \o StagedGems(slots, 0)), slots, 0)

\* FillIterationSlots deleting the last pending entry instead of the first
FillIterationSlots_pop(slots) ==
    List([k \in 1 .. BOARD_WIDTH |->
            IF Len(slots[k - 1]) = 0
            THEN slots[k - 1]
            ELSE SubSeq(slots[k - 1], 1, Len(slots[k - 1]) - 1)])

\* "del drop_slots[x][0]" for every column with a pending entry
FillIterationSlots(slots) ==
    List([k \in 1 .. BOARD_WIDTH |->
            IF Len(slots[k - 1]) = 0 THEN slots[k - 1] ELSE Tail(slots[k - 1])])

(***************************************************************************)
(* GemInfo.is_adjacent_to, GemInfo.prepare_swap, get_swapping_gems         *)
(***************************************************************************)
\* the distance compared with the diagonal of a cell instead of its side
is_adjacent_to_diagonal(self, other) ==
    IF self.x = other.x /\ self.y = other.y
    THEN FALSE
    ELSE (self.x - other.x) * (self.x - other.x)
         + (self.y - other.y) * (self.y - other.y) <= 2

\* ((dx ** 2 + dy ** 2) ** 0.5 <= 1), on integers
is_adjacent_to(self, other) ==
    IF self.x = other.x /\ self.y = other.y
    THEN FALSE
    ELSE (self.x - other.x) * (self.x - other.x)
         + (self.y - other.y) * (self.y - other.y) <= 1

\* arcade_gem.py: [raised, value], raised when ValueError is raised
arcade_is_adjacent_to(self, other) ==
    IF self.x = other.x /\ self.y = other.y
    THEN [raised |-> TRUE, value |-> None]
    ELSE [raised |-> FALSE,
          value |-> (self.x - other.x) * (self.x - other.x)
                    + (self.y - other.y) * (self.y - other.y) <= 1]

\* the directions of the vertical branches exchanged
prepare_swap_flipped(self, other) ==
    IF ~is_adjacent_to(self, other)
    THEN [raised |-> TRUE, first |-> self, second |-> other]
    ELSE IF self.x > other.x /\ self.y = other.y
    THEN [raised |-> FALSE, first |-> [self EXCEPT !.direction = "LEFT"],
          second |-> [other EXCEPT !.direction = "RIGHT"]]
    ELSE IF self.x < other.x /\ self.y = other.y
    THEN [raised |-> FALSE, first |-> [self EXCEPT !.direction = "RIGHT"],
          second |-> [other EXCEPT !.direction = "LEFT"]]
    ELSE IF self.x = other.x /\ self.y < other.y
    THEN [raised |-> FALSE, first |-> [self EXCEPT !.direction = "DOWN"],
          second |-> [other EXCEPT !.direction = "UP"]]
    ELSE IF self.x = other.x /\ self.y > other.y
    THEN [raised |-> FALSE, first |-> [self EXCEPT !.direction = "UP"],
          second |-> [other EXCEPT !.direction = "DOWN"]]
    ELSE [raised |-> FALSE, first |-> self, second |-> other]

\* the branches taken without the test of adjacency
prepare_swap_unguarded(self, other) ==
    IF self.x > other.x /\ self.y = other.y
    THEN [raised |-> FALSE, first |-> [self EXCEPT !.direction = "LEFT"],
          second |-> [other EXCEPT !.direction = "RIGHT"]]
    ELSE IF self.x < other.x /\ self.y = other.y
    THEN [raised |-> FALSE, first |-> [self EXCEPT !.direction = "RIGHT"],
          second |-> [other EXCEPT !.direction = "LEFT"]]
    ELSE IF self.x = other.x /\ self.y < other.y
    THEN [raised |-> FALSE, first |-> [self EXCEPT !.direction = "UP"],
          second |-> [other EXCEPT !.direction = "DOWN"]]
    ELSE IF self.x = other.x /\ self.y > other.y
    THEN [raised |-> FALSE, first |-> [self EXCEPT !.direction = "DOWN"],
          second |-> [other EXCEPT !.direction = "UP"]]
    ELSE [raised |-> FALSE, first |-> self, second |-> other]

\* [raised, first, second]: whether ValueError was raised, and the two gems
prepare_swap(self, other) ==
    IF ~is_adjacent_to(self, other)
    THEN [raised |-> TRUE, first |-> self, second |-> other]
    ELSE IF self.x > other.x /\ self.y = other.y
    THEN [raised |-> FALSE, first |-> [self EXCEPT !.direction = "LEFT"],
          second |-> [other EXCEPT !.direction = "RIGHT"]]
    ELSE IF self.x < other.x /\ self.y = other.y
    THEN [raised |-> FALSE, first |-> [self EXCEPT !.direction = "RIGHT"],
          second |-> [other EXCEPT !.direction = "LEFT"]]
    ELSE IF self.x = other.x /\ self.y < other.y
    THEN [raised |-> FALSE, first |-> [self EXCEPT !.direction = "UP"],
          second |-> [other EXCEPT !.direction = "DOWN"]]
    ELSE IF self.x = other.x /\ self.y > other.y
    THEN [raised |-> FALSE, first |-> [self EXCEPT !.direction = "DOWN"],
          second |-> [other EXCEPT !.direction = "UP"]]
    ELSE [raised |-> FALSE, first |-> self, second |-> other]

\* arcade_gem.py: the ValueError of is_adjacent_to passes through prepare_swap
arcade_prepare_swap(self, other) ==
    LET adjacent == arcade_is_adjacent_to(self, other)
    IN  IF adjacent.raised \/ ~adjacent.value
        THEN [raised |-> TRUE, first |-> self, second |-> other]
        ELSE IF self.x > other.x /\ self.y = other.y
        THEN [raised |-> FALSE, first |-> [self EXCEPT !.direction = "LEFT"],
              second |-> [other EXCEPT !.direction = "RIGHT"]]
        ELSE IF self.x < other.x /\ self.y = other.y
        THEN [raised |-> FALSE, first |-> [self EXCEPT !.direction = "RIGHT"],
              second |-> [other EXCEPT !.direction = "LEFT"]]
        ELSE IF self.x = other.x /\ self.y < other.y
        THEN [raised |-> FALSE, first |-> [self EXCEPT !.direction = "UP"],
              second |-> [other EXCEPT !.direction = "DOWN"]]
        ELSE IF self.x = other.x /\ self.y > other.y
        THEN [raised |-> FALSE, first |-> [self EXCEPT !.direction = "DOWN"],
              second |-> [other EXCEPT !.direction = "UP"]]
        ELSE [raised |-> FALSE, first |-> self, second |-> other]

\* the two gems returned without the test of adjacency
get_swapping_gems_unchecked(b, first_x_y, second_x_y) ==
    LET first_gem == GemInfo(b[first_x_y[1]][first_x_y[2]], first_x_y[1], first_x_y[2])
        second_gem == GemInfo(b[second_x_y[1]][second_x_y[2]], second_x_y[1], second_x_y[2])
        swap == prepare_swap(first_gem, second_gem)
    IN  [none |-> FALSE, first |-> swap.first, second |-> swap.second]

\* [none, first, second]: none when (None, None) is returned
get_swapping_gems(b, first_x_y, second_x_y) ==
    LET first_gem == GemInfo(b[first_x_y[1]][first_x_y[2]], first_x_y[1], first_x_y[2])
        second_gem == GemInfo(b[second_x_y[1]][second_x_y[2]], second_x_y[1], second_x_y[2])
    IN  IF is_adjacent_to(first_gem, second_gem)
        THEN LET swap == prepare_swap(first_gem, second_gem)
             IN  [none |-> FALSE, first |-> swap.first, second |-> swap.second]
        ELSE [none |-> TRUE, first |-> first_gem, second |-> second_gem]

main_get_swapping_gems(b, first_x_y, second_x_y) ==
    LET first_gem == GemInfo(b[first_x_y[1]][first_x_y[2]], first_x_y[1], first_x_y[2])
        second_gem == GemInfo(b[second_x_y[1]][second_x_y[2]], second_x_y[1], second_x_y[2])
    IN  IF first_gem.x = second_gem.x + 1 /\ first_gem.y = second_gem.y
        THEN [none |-> FALSE, first |-> [first_gem EXCEPT !.direction = "LEFT"],
              second |-> [second_gem EXCEPT !.direction = "RIGHT"]]
        ELSE IF first_gem.x = second_gem.x - 1 /\ first_gem.y = second_gem.y
        THEN [none |-> FALSE, first |-> [first_gem EXCEPT !.direction = "RIGHT"],
              second |-> [second_gem EXCEPT !.direction = "LEFT"]]
        ELSE IF first_gem.y = second_gem.y + 1 /\ first_gem.x = second_gem.x
        THEN [none |-> FALSE, first |-> [first_gem EXCEPT !.direction = "UP"],
              second |-> [second_gem EXCEPT !.direction = "DOWN"]]
        ELSE IF first_gem.y = second_gem.y - 1 /\ first_gem.x = second_gem.x
        THEN [none |-> FALSE, first |-> [first_gem EXCEPT !.direction = "DOWN"],
              second |-> [second_gem EXCEPT !.direction = "UP"]]
        ELSE [none |-> TRUE, first |-> first_gem, second |-> second_gem]

(***************************************************************************)
(* State                                                                   *)
(***************************************************************************)
VARIABLES
    impl,                \* the file that is running: "pygame_gem" or "main"
    board,               \* session.board / game_board
    score,               \* session.score
    game_is_over,        \* session.game_is_over
    first_selected_gem,  \* <<>> for None, else <<x, y>>
    clicked_space,       \* session.clicked_space of the last click: <<>> or <<x, y>>
    pc,                  \* "start", "wait", "cascade", "fill", "crashed"; "call", "done"
    ret,                 \* who called fill_board_and_animate: "initial", "cascade", "call"
    drop_slots,          \* drop_slots of the running fill_board_and_animate
    matched_gems,        \* matched_gems of run_game
    score_add,           \* score_add of run_game
    board0,              \* history: the board when the swap attempt (or the call) began
    score0,              \* history: the score when the swap attempt began
    fill0,               \* history: the running fill's starting board, the drop slots
                         \* as get_drop_slots returned them, and its choice log
    passes,              \* history: per cascade pass of this turn, the sizes of its groups
    outcome,             \* history: what the last step was
    selection0,          \* history: the first selection when the second click came
    result,              \* SpecBoard, SpecCalls: what the last call returned
    turns,               \* swap attempts made
    ticks                \* timed deductions made

vars == <<impl, board, score, game_is_over, first_selected_gem, clicked_space, pc, ret,
          drop_slots, matched_gems, score_add, board0, score0, fill0, passes, outcome,
          selection0, result, turns, ticks>>

NoSelection == <<>>

NoResult == <<>>

NoFill == [board |-> BlankBoard, slots |-> NoDropSlots, log |-> <<>>]

\* the session of GameSession(): score 0, not over, a blank board, nothing selected
NewSession ==
    /\ board = BlankBoard
    /\ score = 0
    /\ game_is_over = FALSE
    /\ first_selected_gem = NoSelection
    /\ clicked_space = NoSelection
    /\ selection0 = NoSelection
    /\ result = NoResult
    /\ drop_slots = NoDropSlots
    /\ matched_gems = <<>>
    /\ score_add = 0
    /\ board0 = BlankBoard
    /\ score0 = 0
    /\ fill0 = NoFill
    /\ passes = <<>>
    /\ turns = 0
    /\ ticks = 0

Init ==
    /\ impl \in Impls
    /\ pc = "start"
    /\ ret = "initial"
    /\ outcome = "new"
    /\ NewSession

FindMatchingGems(b) ==
    IF impl = "main" THEN main_find_matching_gems(b) ELSE find_matching_gems(b)

GetDropSlots(b, tape) ==
    IF impl = "main" THEN main_get_drop_slots(b, tape) ELSE get_drop_slots(b, tape)

GetSwappingGems(b, first_x_y, second_x_y) ==
    IF impl = "main"
    THEN main_get_swapping_gems(b, first_x_y, second_x_y)
    ELSE get_swapping_gems(b, first_x_y, second_x_y)

(***************************************************************************)
(* fill_board_and_animate                                                  *)
(***************************************************************************)
\* drop_slots = board.get_drop_slots(...), on board b, called by caller
BeginFill(b, tape, caller) ==
    \E st \in {GetDropSlots(b, tape)} :
        /\ board' = b
        /\ ret' = caller
        /\ IF st.error
           THEN /\ pc' = "crashed"
                /\ UNCHANGED <<drop_slots, fill0>>
           ELSE /\ pc' = "fill"
                /\ drop_slots' = st.slots
                /\ fill0' = [board |-> b, slots |-> st.slots, log |-> st.log]

\* one iteration of "while drop_slots != [[]] * BOARD_WIDTH"
FillStep ==
    /\ pc = "fill"
    /\ drop_slots # NoDropSlots
    /\ board' = FillIterationBoard(board, drop_slots)
    /\ drop_slots' = FillIterationSlots(drop_slots)
    /\ outcome' = "fill_step"
    /\ UNCHANGED <<impl, result, clicked_space, selection0,
                   score, game_is_over, first_selected_gem, pc, ret, matched_gems,
                   score_add, board0, score0, fill0, passes, turns, ticks>>

\* "session.first_selected_gem = None; session.end_game_if_stuck()"
\* the end of a turn without the call of end_game_if_stuck
EndTurn_unchecked(b, how) ==
    /\ first_selected_gem' = NoSelection
    /\ game_is_over' = game_is_over
    /\ pc' = "wait"
    /\ outcome' = how
    /\ turns' = turns + 1

EndTurn(b, how) ==
    /\ first_selected_gem' = NoSelection
    /\ game_is_over' = (game_is_over \/ ~can_make_move(b))
    /\ pc' = "wait"
    /\ outcome' = how
    /\ turns' = turns + 1

\* the loop ends and fill_board_and_animate returns to run_game
FillReturn ==
    /\ pc = "fill"
    /\ drop_slots = NoDropSlots
    /\ \/ /\ ret = "initial"
          /\ pc' = "wait"
          /\ outcome' = "started"
          /\ UNCHANGED <<matched_gems, first_selected_gem, game_is_over, turns>>
       \/ /\ ret = "cascade"
          /\ matched_gems' = FindMatchingGems(board)
          /\ IF matched_gems' = <<>>
             THEN EndTurn(board, "matched")
             ELSE /\ pc' = "cascade"
                  /\ outcome' = "refilled"
                  /\ UNCHANGED <<first_selected_gem, game_is_over, turns>>
    /\ UNCHANGED <<impl, result, clicked_space, selection0,
                   board, score, ret, drop_slots, score_add, board0, score0, fill0,
                   passes, ticks>>

(***************************************************************************)
(* run_game                                                                *)
(***************************************************************************)
\* "gem_game.fill_board_and_animate(session.board, [], session.score)"
InitialFill ==
    /\ pc = "start"
    /\ \E tape \in Tapes : BeginFill(board, tape, "initial")
    /\ outcome' = "filling"
    /\ UNCHANGED <<impl, result, clicked_space, selection0,
                   score, game_is_over, first_selected_gem, matched_gems, score_add,
                   board0, score0, passes, turns, ticks>>

\* a click on cell <<x, y>> with nothing selected
SelectFirst ==
    /\ pc = "wait"
    /\ ~game_is_over
    /\ first_selected_gem = NoSelection
    /\ \E x \in X, y \in Y : clicked_space' = <<x, y>>
    /\ first_selected_gem' = clicked_space'
    /\ outcome' = "selected"
    /\ UNCHANGED <<impl, result, selection0,
                   board, score, game_is_over, pc, ret, drop_slots, matched_gems,
                   score_add, board0, score0, fill0, passes, turns, ticks>>

\* GroupPoints without the factor of the extra pieces
GroupPoints_unscaled(gem_set) == 10 + (Len(gem_set) - 3)

\* 10 + (len(gem_set) - 3) * 10
GroupPoints(gem_set) == 10 + (Len(gem_set) - 3) * 10

\* score_add after "for gem_set in matched_gems: score_add += ..."
RECURSIVE AddPoints(_, _)
AddPoints(add, gem_sets) ==
    IF gem_sets = <<>>
    THEN add
    ELSE CHOOSE r \in {AddPoints(added, Tail(gem_sets)) :
                          added \in {add + GroupPoints(Head(gem_sets))}} : TRUE

\* "for gem_set in matched_gems: for gem in gem_set: board[gem[0]][gem[1]] = EMPTY_SPACE"
RECURSIVE RemoveMatched(_, _)
RemoveMatched(b, gem_sets) ==
    IF gem_sets = <<>>
    THEN b
    ELSE CHOOSE r \in {RemoveMatched(cleared, Tail(gem_sets)) :
                          cleared \in {ClearCells(b, Head(gem_sets))}} : TRUE

\* the two assignments "Swap the gems in the board data structure"
SwapGems(b, first, second) ==
    SetCell(SetCell(b, first.x, first.y, second.image_num),
            second.x, second.y, first.image_num)

\* the two assignments "Was not a matching move; swap the gems back"
SwapBack(b, first, second) ==
    SetCell(SetCell(b, first.x, first.y, second.image_num),
            second.x, second.y, first.image_num)

main_SwapBack(b, first, second) ==
    SetCell(SetCell(b, first.x, first.y, first.image_num),
            second.x, second.y, second.image_num)

\* the swap attempt of run_game on the adjacent gems first and second
\* (the sets of one element only name a value)
AttemptSwap(first, second) ==
    \E swapped \in {SwapGems(board, first, second)} :
    \E matched \in {FindMatchingGems(swapped)} :
        /\ board0' = board
        /\ score0' = score
        /\ matched_gems' = matched
        /\ passes' = <<>>
        /\ IF matched = <<>>
           THEN \E back \in {IF impl = "main"
                             THEN main_SwapBack(swapped, first, second)
                             ELSE SwapBack(swapped, first, second)} :
                    /\ board' = back
                    /\ EndTurn(back, "reverted")
                    /\ UNCHANGED score_add
           ELSE /\ board' = swapped
                /\ score_add' = 0
                /\ pc' = "cascade"
                /\ outcome' = "swapped"
                /\ UNCHANGED <<first_selected_gem, game_is_over, turns>>

\* a click on cell <<x, y>> with a gem selected: deselect, or attempt the swap
SelectSecond ==
    /\ pc = "wait"
    /\ ~game_is_over
    /\ first_selected_gem # NoSelection
    /\ turns < MaxTurns
    /\ \E x \in X, y \in Y :
       \E swapping \in {GetSwappingGems(board, first_selected_gem, <<x, y>>)} :
           /\ clicked_space' = <<x, y>>
           /\ IF swapping.none
              THEN /\ first_selected_gem' = NoSelection
                   /\ outcome' = "deselected"
                   /\ board0' = board
                   /\ score0' = score
                   /\ UNCHANGED <<board, game_is_over, pc, matched_gems, score_add,
                                  passes, turns>>
              ELSE AttemptSwap(swapping.first, swapping.second)
    /\ selection0' = first_selected_gem
    /\ UNCHANGED <<impl, result, score, ret, drop_slots, fill0, ticks>>

\* one pass of "while matched_gems": score and remove the groups, then refill
CascadePass ==
    /\ pc = "cascade"
    /\ Len(passes) < MaxPasses
    /\ score_add' = AddPoints(score_add, matched_gems)
    /\ score' = score + score_add'
    /\ passes' = Append(passes, [k \in 1 .. Len(matched_gems) |-> Len(matched_gems[k])])
    /\ \E tape \in Tapes, cleared \in {RemoveMatched(board, matched_gems)} :
         BeginFill(cleared, tape, "cascade")
    /\ outcome' = "removed"
    /\ UNCHANGED <<impl, result, clicked_space, selection0,
                   game_is_over, first_selected_gem, matched_gems, board0, score0,
                   turns, ticks>>

\* "score drops over time"
\* the deduction made without looking at game_is_over
Tick_unguarded ==
    /\ pc = "wait"
    /\ score > 0
    /\ ticks < MaxTicks
    /\ score' = score - 1
    /\ ticks' = ticks + 1
    /\ outcome' = "tick"
    /\ UNCHANGED <<impl, result, clicked_space, selection0,
                   board, game_is_over, first_selected_gem, pc, ret, drop_slots,
                   matched_gems, score_add, board0, score0, fill0, passes, turns>>

Tick ==
    /\ pc = "wait"
    /\ ~game_is_over
    /\ score > 0
    /\ ticks < MaxTicks
    /\ score' = score - 1
    /\ ticks' = ticks + 1
    /\ outcome' = "tick"
    /\ UNCHANGED <<impl, result, clicked_space, selection0,
                   board, game_is_over, first_selected_gem, pc, ret, drop_slots,
                   matched_gems, score_add, board0, score0, fill0, passes, turns>>

\* run_game returns (BACKSPACE, or a click once the game is over) and main()
\* calls it again
Restart ==
    /\ pc = "wait"
    /\ pc' = "start"
    /\ ret' = "initial"
    /\ outcome' = "restarted"
    /\ board' = BlankBoard
    /\ score' = 0
    /\ game_is_over' = FALSE
    /\ first_selected_gem' = NoSelection
    /\ clicked_space' = NoSelection
    /\ selection0' = NoSelection
    /\ drop_slots' = NoDropSlots
    /\ matched_gems' = <<>>
    /\ score_add' = 0
    /\ board0' = BlankBoard
    /\ score0' = 0
    /\ fill0' = NoFill
    /\ passes' = <<>>
    /\ turns' = 0
    /\ ticks' = 0
    /\ UNCHANGED <<impl, result>>

Next ==
    \/ InitialFill
    \/ FillStep
    \/ FillReturn
    \/ SelectFirst
    \/ SelectSecond
    \/ CascadePass
    \/ Tick
    \/ Restart

Spec == Init /\ [][Next]_vars

(***************************************************************************)
(* SpecBoard: one call on a board drawn from InputBoards                   *)
(***************************************************************************)
\* the board holding the pieces kinds[c] in the cells c of DOMAIN kinds
BoardOf(kinds) ==
    List([x \in 1 .. BOARD_WIDTH |->
            List([y \in 1 .. BOARD_HEIGHT |->
                    IF <<x - 1, y - 1>> \in DOMAIN kinds
                    THEN kinds[<<x - 1, y - 1>>]
                    ELSE EMPTY_SPACE])])

\* the boards of at most MaxPieces pieces and the boards with no empty cell
InputBoards ==
    UNION {{BoardOf(kinds) : kinds \in [cells -> 0 .. MaxInputKind]} :
              cells \in {c \in SUBSET (X \X Y) :
                            \/ Cardinality(c) <= MaxPieces
                            \/ Cardinality(c) = BOARD_WIDTH * BOARD_HEIGHT}}

BoardInit ==
    /\ impl \in Impls
    /\ board \in InputBoards
    /\ board0 = board
    /\ pc = "call"
    /\ ret = "call"
    /\ outcome = "new"
    /\ score = 0
    /\ game_is_over = FALSE
    /\ first_selected_gem = NoSelection
    /\ clicked_space = NoSelection
    /\ selection0 = NoSelection
    /\ result = NoResult
    /\ drop_slots = NoDropSlots
    /\ matched_gems = <<>>
    /\ score_add = 0
    /\ score0 = 0
    /\ fill0 = NoFill
    /\ passes = <<>>
    /\ turns = 0
    /\ ticks = 0

\* the scan of find_matching_gems in the running file: [copy, gems] at its end
FindMatchingGemsScan(b) ==
    IF impl = "main"
    THEN main_FindFrom([copy |-> b, gems |-> <<>>], 0)
    ELSE FindFrom(b, [copy |-> b, gems |-> <<>>], 0)

CallFindMatchingGems ==
    /\ pc = "call"
    /\ \E scan \in {FindMatchingGemsScan(board)} :
           /\ matched_gems' = scan.gems
           /\ board' = CallerBoard(board, scan.copy)
    /\ pc' = "done"
    /\ outcome' = "found"
    /\ UNCHANGED <<impl, result, clicked_space, selection0,
                   score, game_is_over, first_selected_gem, ret, drop_slots,
                   score_add, board0, score0, fill0, passes, turns, ticks>>

CallPullDownAllGems ==
    /\ pc = "call"
    /\ board' = pull_down_all_gems(board)
    /\ pc' = "done"
    /\ outcome' = "pulled"
    /\ UNCHANGED <<impl, result, clicked_space, selection0,
                   score, game_is_over, first_selected_gem, ret, drop_slots,
                   matched_gems, score_add, board0, score0, fill0, passes, turns, ticks>>

\* one call of can_make_move
CallCanMakeMove ==
    /\ pc = "call"
    /\ result' = can_make_move(board)
    /\ pc' = "done"
    /\ outcome' = "can_make_move"
    /\ UNCHANGED <<impl, clicked_space, selection0,
                   board, score, game_is_over, first_selected_gem, ret, drop_slots,
                   matched_gems, score_add, board0, score0, fill0, passes, turns, ticks>>

\* one call of get_dropping_gems
CallGetDroppingGems ==
    /\ pc = "call"
    /\ \E scan \in {DroppingFrom([copy |-> board, gems |-> <<>>], 0)} :
           /\ result' = get_dropping_gems(board)
           /\ board' = CallerBoard(board, scan.copy)
    /\ pc' = "done"
    /\ outcome' = "dropping"
    /\ UNCHANGED <<impl, clicked_space, selection0,
                   score, game_is_over, first_selected_gem, ret, drop_slots,
                   matched_gems, score_add, board0, score0, fill0, passes, turns, ticks>>

\* one call of get_drop_slots
CallGetDropSlots ==
    /\ pc = "call"
    /\ \E tape \in Tapes :
           \E st \in {GetDropSlots(board, tape)} :
               /\ result' = [error |-> st.error, slots |-> st.slots]
               /\ board' = CallerBoard(board, st.copy)
    /\ pc' = "done"
    /\ outcome' = "drop_slots"
    /\ UNCHANGED <<impl, clicked_space, selection0,
                   score, game_is_over, first_selected_gem, ret, drop_slots,
                   matched_gems, score_add, board0, score0, fill0, passes, turns, ticks>>

\* one call of get_board_copy_minus_gems, on the moving gems of a fill
\* iteration: the dropping gems and a gem staged above the board
CallGetBoardCopyMinusGems ==
    /\ pc = "call"
    /\ \E gems \in {get_dropping_gems(board) \o <<GemInfo(0, 0, ROW_ABOVE_BOARD)>>} :
           /\ result' = get_board_copy_minus_gems(board, gems)
           /\ board' = CallerBoard(board, result')
    /\ pc' = "done"
    /\ outcome' = "copy_minus_gems"
    /\ UNCHANGED <<impl, clicked_space, selection0,
                   score, game_is_over, first_selected_gem, ret, drop_slots,
                   matched_gems, score_add, board0, score0, fill0, passes, turns, ticks>>

CallFillBoardAndAnimate ==
    /\ pc = "call"
    /\ \E tape \in Tapes : BeginFill(board, tape, "call")
    /\ outcome' = "filling"
    /\ UNCHANGED <<impl, result, clicked_space, selection0,
                   score, game_is_over, first_selected_gem, matched_gems, score_add,
                   board0, score0, passes, turns, ticks>>

\* the loop ends and fill_board_and_animate returns
CallReturn ==
    /\ pc = "fill"
    /\ ret = "call"
    /\ drop_slots = NoDropSlots
    /\ pc' = "done"
    /\ outcome' = "filled"
    /\ UNCHANGED <<impl, result, clicked_space, selection0,
                   board, score, game_is_over, first_selected_gem, ret, drop_slots,
                   matched_gems, score_add, board0, score0, fill0, passes, turns, ticks>>

BoardNext ==
    \/ CallFindMatchingGems
    \/ CallPullDownAllGems
    \/ CallCanMakeMove
    \/ CallGetDroppingGems
    \/ CallGetDropSlots
    \/ CallGetBoardCopyMinusGems
    \/ CallFillBoardAndAnimate
    \/ FillStep
    \/ CallReturn

SpecBoard == BoardInit /\ [][BoardNext]_vars

(***************************************************************************)
(* Properties                                                              *)
(***************************************************************************)
Directions == {<<1, 0>>, <<0, 1>>}

Full(b) == \A x \in X, y \in Y : b[x][y] # EMPTY_SPACE

\* a piece with an empty cell below it
Floating(b) ==
    \E x \in X, y \in 0 .. (BOARD_HEIGHT - 2) :
        b[x][y] # EMPTY_SPACE /\ b[x][y + 1] = EMPTY_SPACE

\* three equal pieces in the cells (x, y), (x, y) + d, (x, y) + 2d
TripleAt(b, x, y, d) ==
    /\ x + 2 * d[1] < BOARD_WIDTH
    /\ y + 2 * d[2] < BOARD_HEIGHT
    /\ b[x][y] # EMPTY_SPACE
    /\ b[x][y] = b[x + d[1]][y + d[2]]
    /\ b[x][y] = b[x + 2 * d[1]][y + 2 * d[2]]

TripleCells(x, y, d) ==
    {<<x, y>>, <<x + d[1], y + d[2]>>, <<x + 2 * d[1], y + 2 * d[2]>>}

HasRun(b) == \E x \in X, y \in Y, d \in Directions : TripleAt(b, x, y, d)

(***************************************************************************)
(* SpecMoves: end_game_if_stuck on a board as run_game hands it over: no   *)
(* empty cell and no run of three.  The kinds are 0 .. MaxMoveKind and the *)
(* top left piece is of kind 0 (the kinds are interchangeable).            *)
(* can_make_move is the same code in both files.                           *)
(***************************************************************************)
MoveBoards ==
    {b \in [X -> [Y -> 0 .. MaxMoveKind]] : b[0][0] = 0 /\ ~HasRun(b)}

MovesInit ==
    /\ impl = "pygame_gem"
    /\ board \in MoveBoards
    /\ board0 = board
    /\ pc = "call"
    /\ ret = "call"
    /\ outcome = "new"
    /\ score = 0
    /\ game_is_over = FALSE
    /\ first_selected_gem = NoSelection
    /\ clicked_space = NoSelection
    /\ selection0 = NoSelection
    /\ result = NoResult
    /\ drop_slots = NoDropSlots
    /\ matched_gems = <<>>
    /\ score_add = 0
    /\ score0 = 0
    /\ fill0 = NoFill
    /\ passes = <<>>
    /\ turns = 0
    /\ ticks = 0

\* GameSession.end_game_if_stuck
CallEndGameIfStuck ==
    /\ pc = "call"
    /\ game_is_over' = (game_is_over \/ ~can_make_move(board))
    /\ pc' = "done"
    /\ outcome' = "checked"
    /\ UNCHANGED <<impl, result, clicked_space, selection0,
                   board, score, first_selected_gem, ret, drop_slots, matched_gems,
                   score_add, board0, score0, fill0, passes, turns, ticks>>

MovesNext == CallEndGameIfStuck

SpecMoves == MovesInit /\ [][MovesNext]_vars

(***************************************************************************)
(* SpecCalls: one call of GemInfo.is_adjacent_to, GemInfo.prepare_swap or  *)
(* get_gem_at, in pygame_gem.py, main.py (get_gem_at only) or              *)
(* arcade_gem.py                                                           *)
(***************************************************************************)
CallImpls == {"pygame_gem", "main", "arcade_gem"}

Direction == {"UP", "DOWN", "LEFT", "RIGHT"}

\* the gems a call is made on: any cell, any direction set before
Gems == {[GemInfo(0, x, y) EXCEPT !.direction = d] : x \in X, y \in Y, d \in Direction}

\* the coordinates get_gem_at is asked for: the board and one step around it
ProbeX == -1 .. BOARD_WIDTH

ProbeY == -1 .. BOARD_HEIGHT

\* boards whose neighbouring cells differ, the uniform boards and the blank one
ProbeBoards ==
    {[x \in X |-> [y \in Y |-> Draw(t, x + BOARD_WIDTH * y) % NUM_GEM_IMAGES]] :
        t \in Tapes} \cup {BlankBoard}

CallsInit ==
    /\ impl \in CallImpls
    /\ board \in ProbeBoards
    /\ board0 = board
    /\ pc = "call"
    /\ ret = "call"
    /\ outcome = "new"
    /\ score = 0
    /\ game_is_over = FALSE
    /\ first_selected_gem = NoSelection
    /\ clicked_space = NoSelection
    /\ selection0 = NoSelection
    /\ result = NoResult
    /\ drop_slots = NoDropSlots
    /\ matched_gems = <<>>
    /\ score_add = 0
    /\ score0 = 0
    /\ fill0 = NoFill
    /\ passes = <<>>
    /\ turns = 0
    /\ ticks = 0

\* [raised, value] of self.is_adjacent_to(other) in the running file
IsAdjacentTo(self, other) ==
    IF impl = "arcade_gem"
    THEN arcade_is_adjacent_to(self, other)
    ELSE [raised |-> FALSE, value |-> is_adjacent_to(self, other)]

PrepareSwap(self, other) ==
    IF impl = "arcade_gem"
    THEN arcade_prepare_swap(self, other)
    ELSE prepare_swap(self, other)

\* get_gem_at of main.py is the code of pygame_gem.py
GetGemAt(b, x, y) ==
    IF impl = "arcade_gem"
    THEN arcade_get_gem_at(b, x, y)
    ELSE get_gem_at(b, x, y)

CallIsAdjacentTo ==
    /\ pc = "call"
    /\ impl # "main"
    /\ \E self \in Gems, other \in Gems :
           \E answer \in {IsAdjacentTo(self, other)} :
               result' = [self |-> self, other |-> other,
                          raised |-> answer.raised, value |-> answer.value]
    /\ pc' = "done"
    /\ outcome' = "is_adjacent_to"
    /\ UNCHANGED <<impl, clicked_space, selection0,
                   board, score, game_is_over, first_selected_gem, ret, drop_slots,
                   matched_gems, score_add, board0, score0, fill0, passes, turns, ticks>>

CallPrepareSwap ==
    /\ pc = "call"
    /\ impl # "main"
    /\ \E self \in Gems, other \in Gems :
           \E swap \in {PrepareSwap(self, other)} :
               result' = [self |-> self, other |-> other, raised |-> swap.raised,
                          first |-> swap.first, second |-> swap.second]
    /\ pc' = "done"
    /\ outcome' = "prepare_swap"
    /\ UNCHANGED <<impl, clicked_space, selection0,
                   board, score, game_is_over, first_selected_gem, ret, drop_slots,
                   matched_gems, score_add, board0, score0, fill0, passes, turns, ticks>>

CallGetGemAt ==
    /\ pc = "call"
    /\ \E x \in ProbeX, y \in ProbeY :
           result' = [x |-> x, y |-> y, value |-> GetGemAt(board, x, y)]
    /\ pc' = "done"
    /\ outcome' = "get_gem_at"
    /\ UNCHANGED <<impl, clicked_space, selection0,
                   board, score, game_is_over, first_selected_gem, ret, drop_slots,
                   matched_gems, score_add, board0, score0, fill0, passes, turns, ticks>>

\* what get_gem_at can return for a neighbour of the cell being refilled
NeighborGems == {None, EMPTY_SPACE} \cup (0 .. (NUM_GEM_IMAGES - 1))

\* the narrowing of possible_gems in get_drop_slots, for the four neighbours
CallPossibleGems ==
    /\ pc = "call"
    /\ \E up \in NeighborGems, right \in NeighborGems,
          down \in NeighborGems, left \in NeighborGems :
           result' = [neighbors |-> <<up, right, down, left>>,
                      possible_gems |-> NarrowedBy(up, right, down, left)]
    /\ pc' = "done"
    /\ outcome' = "possible_gems"
    /\ UNCHANGED <<impl, clicked_space, selection0,
                   board, score, game_is_over, first_selected_gem, ret, drop_slots,
                   matched_gems, score_add, board0, score0, fill0, passes, turns, ticks>>

CallsNext ==
    \/ CallIsAdjacentTo
    \/ CallPrepareSwap
    \/ CallGetGemAt
    \/ CallPossibleGems

SpecCalls == CallsInit /\ [][CallsNext]_vars

\* the column col as a sequence, top first, and its pieces
ColumnSeq(col) == [k \in 1 .. BOARD_HEIGHT |-> col[k - 1]]

PiecesOf(col) == SelectSeq(ColumnSeq(col), LAMBDA v : v # EMPTY_SPACE)

OnBoard(c) == c[1] \in X /\ c[2] \in Y

\* the cells of the run r = [x, y, d, n], in order from (x, y)
RunSeq(r) == [k \in 1 .. r.n |-> <<r.x + (k - 1) * r.d[1], r.y + (k - 1) * r.d[2]>>]

RunCells(r) == {RunSeq(r)[k] : k \in 1 .. r.n}

\* the maximal straight runs of at least three equal pieces of board b
MaximalRuns(b) ==
    {r \in [x : X, y : Y, d : Directions,
            n : 3 .. (IF BOARD_WIDTH > BOARD_HEIGHT THEN BOARD_WIDTH ELSE BOARD_HEIGHT)] :
        /\ b[r.x][r.y] # EMPTY_SPACE
        /\ \A c \in RunCells(r) : OnBoard(c) /\ b[c[1]][c[2]] = b[r.x][r.y]
        /\ get_gem_at(b, r.x - r.d[1], r.y - r.d[2]) # b[r.x][r.y]
        /\ get_gem_at(b, r.x + r.n * r.d[1], r.y + r.n * r.d[2]) # b[r.x][r.y]}

Crosses(b, r) ==
    \E other \in MaximalRuns(b) : other # r /\ RunCells(other) \cap RunCells(r) # {}

\* C1: in pygame_gem.py, when the swap of two adjacent cells gives no group,
\* the board at the end of the turn equals the board before the swap cell for
\* cell, and the score is unchanged by the turn.
C1_RevertRestores ==
    (outcome = "reverted" /\ impl = "pygame_gem") => (board = board0 /\ score = score0)

\* a group has at least 3 cells, consecutive in one row or one column, all
\* holding the same non-empty kind on board b
WellFormedGroup(b, gem_set) ==
    /\ Len(gem_set) >= 3
    /\ \E d \in Directions :
         \A k \in 1 .. Len(gem_set) :
            /\ gem_set[k] = <<gem_set[1][1] + (k - 1) * d[1], gem_set[1][2] + (k - 1) * d[2]>>
            /\ OnBoard(gem_set[k])
            /\ b[gem_set[k][1]][gem_set[k][2]] # EMPTY_SPACE
            /\ b[gem_set[k][1]][gem_set[k][2]] = b[gem_set[1][1]][gem_set[1][2]]

\* C2: every group returned by find_matching_gems of pygame_gem.py has at least
\* 3 cells, all holding the same non-empty kind on the caller's board, and
\* they are consecutive cells of one row or one column.
C2_GroupsWellFormed ==
    (outcome = "found" /\ impl = "pygame_gem") =>
        \A k \in 1 .. Len(matched_gems) : WellFormedGroup(board, matched_gems[k])

\* C3: on a board whose maximal runs of n >= 3 equal pieces cross no other run,
\* find_matching_gems of pygame_gem.py returns exactly one group for each run,
\* holding exactly its n cells in order, and no further group (a row 2,2,2,2
\* gives one group of 4, not two groups).
C3_OneGroupPerRun ==
    (/\ outcome = "found"
     /\ impl = "pygame_gem"
     /\ \A r \in MaximalRuns(board) : ~Crosses(board, r)) =>
        /\ Len(matched_gems) = Cardinality(MaximalRuns(board))
        /\ \A r \in MaximalRuns(board) :
              \E k \in 1 .. Len(matched_gems) : matched_gems[k] = RunSeq(r)

\* the turn of a matching swap: its cascade is running or has just ended
InMatchingTurn ==
    pc = "cascade" \/ (pc = "fill" /\ ret = "cascade") \/ outcome = "matched"

\* the sum of 10 + 10*(size - 3) over the group sizes of one pass
RECURSIVE PassPoints(_)
PassPoints(sizes) ==
    IF sizes = <<>> THEN 0 ELSE 10 + 10 * (Head(sizes) - 3) + PassPoints(Tail(sizes))

\* the sum of PassPoints over the first n passes
RECURSIVE PointsUpTo(_, _)
PointsUpTo(all_passes, n) ==
    IF n = 0 THEN 0 ELSE PointsUpTo(all_passes, n - 1) + PassPoints(all_passes[n])

\* the sum, over the passes p = 1 .. n, of the points of the passes 1 .. p
RECURSIVE RunningPoints(_, _)
RunningPoints(all_passes, n) ==
    IF n = 0 THEN 0 ELSE RunningPoints(all_passes, n - 1) + PointsUpTo(all_passes, n)

\* C4 (as claimed): the total added to the score by the turn of a matching swap
\* is the sum, over every pass of the cascade and every group matched in that
\* pass, of 10 + 10*(group size - 3), each group counted once.
C4_EachGroupOnce ==
    InMatchingTurn => score - score0 = PointsUpTo(passes, Len(passes))

\* C4 (amended): the total added to the score by the turn of a matching swap is
\* the sum, over every pass p of the cascade, of the running total score_add
\* after pass p: the sum of 10 + 10*(group size - 3) over the groups returned
\* in the passes 1 .. p.
C4_RunningTotal ==
    InMatchingTurn => score - score0 = RunningPoints(passes, Len(passes))

\* a turn ended after a cascade of two passes, the second one with a group
C4_TwoPassTurn ==
    outcome = "matched" /\ Len(passes) = 2 /\ passes[2] # <<>>

\* some exchange of two orthogonally adjacent cells of b gives a run of three
ExistsMatchingSwap(b) ==
    \E c \in X \X Y, d \in {<<1, 0>>, <<0, 1>>, <<-1, 0>>, <<0, -1>>} :
        /\ OnBoard(<<c[1] + d[1], c[2] + d[2]>>)
        /\ HasRun([b EXCEPT ![c[1]][c[2]] = b[c[1] + d[1]][c[2] + d[2]],
                             ![c[1] + d[1]][c[2] + d[2]] = b[c[1]][c[2]]])

\* C5: on a fully populated board with no run of three, can_make_move returns
\* True if and only if some exchange of two orthogonally adjacent cells creates
\* a horizontal or vertical run of at least three equal pieces.
C5_MoveIffSwap ==
    (outcome = "checked" /\ Full(board) /\ ~HasRun(board)) =>
        (game_is_over = ~ExistsMatchingSwap(board))

\* can_make_move has returned False on a full board with no run
C5_StuckFound ==
    outcome = "checked" /\ Full(board) /\ ~HasRun(board) /\ game_is_over

\* C6: when fill_board_and_animate returns, the board has no empty cell and no
\* piece with an empty cell below it.
C6_FilledAndSettled ==
    outcome = "filled" => (Full(board) /\ ~Floating(board))

\* the fill of a board with a floating piece has returned
C6_FloatingFilled ==
    outcome = "filled" /\ Floating(board0) /\ fill0.log # <<>>

\* C7: after pull_down_all_gems every column has its empty cells at the top and
\* its pieces below them in their original order: no empty cell below a piece,
\* the column height and the sequence of kinds unchanged.
C7_PullDownCompacts ==
    outcome = "pulled" =>
        /\ ~Floating(board)
        /\ \A x \in X :
              /\ DOMAIN board[x] = Y
              /\ PiecesOf(board[x]) = PiecesOf(board0[x])

\* pull_down_all_gems has moved two pieces of different kinds of one column
C7_PulledTwo ==
    /\ outcome = "pulled"
    /\ \E x \in X :
          /\ board[x] # board0[x]
          /\ Len(PiecesOf(board0[x])) >= 2
          /\ PiecesOf(board0[x])[1] # PiecesOf(board0[x])[2]

\* the cells filled by the pieces generated in the running fill
NewCells == {<<fill0.log[k].x, fill0.log[k].y>> : k \in 1 .. Len(fill0.log)}

\* C8: after fill_board_and_animate of pygame_gem.py refills a board, no run of
\* three equal pieces of the resulting board contains a cell filled by a piece
\* generated in that refill; the first fill of a blank board leaves no match.
C8_NoRunThroughNewPiece ==
    (outcome = "filled" /\ impl = "pygame_gem") =>
        \A x \in X, y \in Y, d \in Directions :
            TripleAt(board, x, y, d) => TripleCells(x, y, d) \cap NewCells = {}

\* C9: in get_drop_slots of pygame_gem.py, every kind appended to a drop slot
\* differs from the kind of each of the four orthogonal neighbours of its
\* destination cell in the scratch grid at the moment of the choice.
C9_DiffersFromScratchNeighbours ==
    (outcome = "filling" /\ impl = "pygame_gem") =>
        \A k \in 1 .. Len(fill0.log) :
            \A d \in {<<0, -1>>, <<1, 0>>, <<0, 1>>, <<-1, 0>>} :
                get_gem_at(fill0.log[k].scratch, fill0.log[k].x + d[1], fill0.log[k].y + d[2])
                    # fill0.log[k].gem

\* column x of b compacted, its empty cells filled from the lowest one upward
\* with slots[x][0], slots[x][1], ...
DirectColumn(col, slot) ==
    LET pieces == PiecesOf(col)
        empty == BOARD_HEIGHT - Len(pieces)
    IN  [y \in Y |-> IF y < empty THEN slot[empty - y] ELSE pieces[y - empty + 1]]

DirectFill(b, slots) == [x \in X |-> DirectColumn(b[x], slots[x])]

\* C10: the board left by the stepwise loop of fill_board_and_animate equals the
\* board obtained directly by compacting each column and writing the column's
\* drop-slot kinds into its empty cells from the lowest empty cell upward.
C10_StepwiseEqualsDirect ==
    outcome = "filled" => board = DirectFill(fill0.board, fill0.slots)

\* a fill has returned that dropped a floating piece and landed two different
\* new pieces in one column
C10_TwoLanded ==
    /\ outcome = "filled"
    /\ Floating(board0)
    /\ \E x \in X : Len(fill0.slots[x]) >= 2 /\ fill0.slots[x][1] # fill0.slots[x][2]

\* C11: on a fully populated board get_dropping_gems returns no piece,
\* get_drop_slots returns an empty slot for every column, and
\* fill_board_and_animate takes no step and returns with the board unchanged.
C11_FullBoardAtRest ==
    Full(board0) =>
        /\ outcome = "dropping" => result = <<>> /\ board = board0
        /\ outcome = "filling" =>
              /\ pc = "fill"
              /\ fill0.slots = NoDropSlots
              /\ drop_slots = NoDropSlots
              /\ board = board0
        /\ outcome # "fill_step"
        /\ outcome = "filled" => board = board0 /\ drop_slots = NoDropSlots

\* fill_board_and_animate has returned on a fully populated board
C11_FullBoardFilled == Full(board0) /\ outcome = "filled"

\* the cells a and b are orthogonal neighbours
Orthogonal(a, b) ==
    \/ a[1] = b[1] /\ (a[2] = b[2] + 1 \/ a[2] = b[2] - 1)
    \/ a[2] = b[2] /\ (a[1] = b[1] + 1 \/ a[1] = b[1] - 1)

\* the second click of a pair has just been handled
SecondClickHandled == outcome \in {"deselected", "reverted", "swapped"}

\* C12: a second selection that is the first selection again, or a cell that is
\* not an orthogonal neighbour of it, clears the first selection, leaves the
\* board and the score as they were and raises no error: the session waits
\* for a first selection again.
C12_BadSecondSelection ==
    (SecondClickHandled /\ ~Orthogonal(selection0, clicked_space)) =>
        /\ outcome = "deselected"
        /\ first_selected_gem = NoSelection
        /\ board = board0
        /\ score = score0
        /\ pc = "wait"
        /\ ~game_is_over

\* the first selection was clicked again
C12_SameCellClicked ==
    SecondClickHandled /\ selection0 = clicked_space /\ score > 0

\* a cell two columns away from the first selection was clicked
C12_FarCellClicked ==
    /\ SecondClickHandled
    /\ selection0[2] = clicked_space[2]
    /\ selection0[1] + 2 = clicked_space[1]

\* a swap attempt between adjacent cells has just ended
SwapAttemptEnded == outcome \in {"reverted", "matched"}

\* C13: when a swap attempt between adjacent cells ends, matched or reverted,
\* the first selection is cleared and game_is_over is true exactly when
\* can_make_move answers False on the board the attempt left; when it is
\* false the session waits for a first selection again.
C13_EndOfSwapAttempt ==
    SwapAttemptEnded =>
        /\ Orthogonal(selection0, clicked_space)
        /\ first_selected_gem = NoSelection
        /\ game_is_over = ~can_make_move(board)
        /\ pc = "wait"

\* a swap attempt ended on a board without a move
C13_AttemptEndedStuck == SwapAttemptEnded /\ game_is_over

\* C14: from a state where game_is_over is true, a step either returns from
\* run_game to a fresh session or leaves the board, the score and
\* game_is_over as they are.
C14_GameOverFrozen ==
    [][game_is_over =>
          \/ /\ outcome' = "restarted"
             /\ board' = BlankBoard
             /\ score' = 0
             /\ ~game_is_over'
          \/ /\ board' = board
             /\ score' = score
             /\ game_is_over']_vars

\* the game is over with points left and the timer not yet used up
C14_OverWithPoints == game_is_over /\ pc = "wait" /\ score > 0 /\ ticks < MaxTicks

\* C15: the score of a session of pygame_gem.py is never negative.
C15_ScoreNeverNegative == impl = "pygame_gem" => score >= 0

\* the cells of the two gems of the last call of is_adjacent_to or prepare_swap
SelfCell == <<result.self.x, result.self.y>>

OtherCell == <<result.other.x, result.other.y>>

C17_SameCellSignalled ==
    (outcome = "is_adjacent_to" /\ SelfCell = OtherCell) => result.raised

C19_InvalidSwapRaises ==
    (outcome = "prepare_swap" /\ ~Orthogonal(SelfCell, OtherCell)) =>
        /\ result.raised
        /\ result.first = result.self
        /\ result.second = result.other

\* prepare_swap of arcade_gem.py was called on two gems in the same cell whose
\* directions were set before
C19_SameCellSwapAsked ==
    /\ outcome = "prepare_swap"
    /\ impl = "arcade_gem"
    /\ SelfCell = OtherCell
    /\ result.self.direction = "UP"
    /\ result.other.direction = "LEFT"

\* C20: in each of the three files get_gem_at(x, y) returns None exactly when
\* x is outside 0 .. BOARD_WIDTH - 1 or y is outside 0 .. BOARD_HEIGHT - 1,
\* and the stored board[x][y] for every other coordinate, column 0 and row 0
\* included.
C20_NoneIffOutOfBounds ==
    outcome = "get_gem_at" =>
        IF result.x \in X /\ result.y \in Y
        THEN result.value = board[result.x][result.y] /\ result.value # None
        ELSE result.value = None

\* the three cells of pattern pat placed at (x, y), with the offsets taken as
\* (dx, dy) or, when transposed, as (dy, dx)
PatternCells(x, y, pat, transposed) ==
    {IF transposed THEN <<x + pat[k][2], y + pat[k][1]>>
                   ELSE <<x + pat[k][1], y + pat[k][2]>> : k \in 1 .. 3}

\* some pattern lies on board b with its three cells holding one non-empty kind
PatternOfPieces(b) ==
    \E x \in X, y \in Y, p \in 1 .. Len(one_off_patterns), transposed \in BOOLEAN :
        \E kind \in 0 .. (NUM_GEM_IMAGES - 1) :
            \A c \in PatternCells(x, y, one_off_patterns[p], transposed) :
                OnBoard(c) /\ b[c[1]][c[2]] = kind

\* C21: can_make_move returns True only when the three cells of some pattern,
\* or of its transposed form, are on the board and hold the same non-empty
\* kind; three empty cells never make it return True (it returns False on a
\* blank board).
C21_MoveNeedsPieces ==
    (outcome = "can_make_move" /\ result = TRUE) => PatternOfPieces(board)

\* C22: when one cell is the first cell of a horizontal run and of a vertical
\* run of at least 3 equal pieces, find_matching_gems returns both runs as
\* groups, each with all of its cells, the shared cell included.
C22_BothRunsOfSharedStart ==
    outcome = "found" =>
        \A h \in MaximalRuns(board), v \in MaximalRuns(board) :
            (h.d = <<1, 0>> /\ v.d = <<0, 1>> /\ h.x = v.x /\ h.y = v.y) =>
                /\ \E k \in 1 .. Len(matched_gems) : matched_gems[k] = RunSeq(h)
                /\ \E k \in 1 .. Len(matched_gems) : matched_gems[k] = RunSeq(v)

\* one of the query operations has just returned
QueryReturned ==
    outcome \in {"found", "can_make_move", "drop_slots", "dropping", "copy_minus_gems"}

C24_CandidatesNeverEmpty ==
    outcome = "possible_gems" =>
        /\ Len(result.possible_gems) >= NUM_GEM_IMAGES - 4
        /\ Len(result.possible_gems) >= 1
        /\ \A k \in 1 .. Len(result.possible_gems) :
              /\ result.possible_gems[k] \in 0 .. (NUM_GEM_IMAGES - 1)
              /\ \A n \in 1 .. 4 : result.possible_gems[k] # result.neighbors[n]

\* the four neighbours hold four different kinds
C24_FourKindsAround ==
    /\ outcome = "possible_gems"
    /\ Cardinality({result.neighbors[n] : n \in 1 .. 4} \cap (0 .. (NUM_GEM_IMAGES - 1))) = 4

\* a removal pass that is not the first of its turn has just been made
LaterPass == pc = "cascade" /\ Len(passes) >= 1 /\ Len(passes') > Len(passes)

\* C25: the remove / settle / re-detect loop of a turn ends after finitely
\* many passes whatever the refills draw.  If it does, no pass of a turn
\* leaves, after its removal, the board that the pass before it left: from
\* such a board the same draws can be made again, pass after pass, for ever.
C25_NoPassRepeats ==
    [][LaterPass => fill0'.board # fill0.board]_vars

\* C26: whenever run_game of pygame_gem.py waits for a selection, after the
\* initial fill and after every completed swap attempt, the board holds no
\* horizontal or vertical run of three or more equal pieces.
C26_StableWhileWaiting ==
    (impl = "pygame_gem" /\ pc = "wait") => ~HasRun(board)

\* C27: whenever run_game waits for a selection with game_is_over false,
\* directly after the initial fill included, can_make_move is True on the
\* board: a board without a move is marked over before the player selects.
C27_MoveWhileWaiting ==
    (pc = "wait" /\ ~game_is_over) => can_make_move(board)

\* the cell a gem of cell c is moved to by move_gems when its direction is dir
Target(c, dir) == <<c[1] + move_x(dir), c[2] + move_y(dir)>>

\* C28: after prepare_swap of pygame_gem.py succeeds on two adjacent gems, the
\* direction of each gem points at the other gem: the offset that move_gems
\* uses for it (LEFT x-1, RIGHT x+1, UP y-1, DOWN y+1) leads from the gem's
\* cell to the cell of the other gem, for horizontal and vertical neighbours.
C28_DirectionsPointAtEachOther ==
    (outcome = "prepare_swap" /\ impl = "pygame_gem" /\ ~result.raised) =>
        /\ Target(SelfCell, result.first.direction) = OtherCell
        /\ Target(OtherCell, result.second.direction) = SelfCell

\* the piece of row y of column col has an empty cell somewhere below it
Falls(col, y) ==
    col[y] # EMPTY_SPACE /\ \E z \in Y : z > y /\ col[z] = EMPTY_SPACE

\* what row y of a column holds after one iteration that found it as col,
\* with staged the pending entry of its drop slot, None when there is none
AfterIteration(col, y, staged) ==
    IF y > 0 /\ Falls(col, y - 1) THEN col[y - 1]
    ELSE IF col[y] # EMPTY_SPACE /\ ~Falls(col, y) THEN col[y]
    ELSE IF y = 0 /\ staged # None THEN staged
    ELSE EMPTY_SPACE

PieceCount(col) == Cardinality({y \in Y : col[y] # EMPTY_SPACE})

\* C29: one iteration of the loop of fill_board_and_animate moves every piece
\* that has an empty cell somewhere below it in its column down by one row,
\* leaves every other piece where it is and puts the staged piece of each
\* column with a pending entry on row 0; nothing is overwritten or lost: such
\* a column gains exactly one piece, any other column keeps its count.
C29_OneRowPerIteration ==
    [][(pc = "fill" /\ outcome' = "fill_step") =>
          \A x \in X :
              LET staged == IF Len(drop_slots[x]) = 0 THEN None ELSE drop_slots[x][1]
              IN  /\ \A y \in Y : board'[x][y] = AfterIteration(board[x], y, staged)
                  /\ PieceCount(board'[x]) =
                        PieceCount(board[x]) + (IF staged = None THEN 0 ELSE 1)]_vars

\* an iteration was made on a board that started with a floating piece
C29_FloatingStepTaken ==
    outcome = "fill_step" /\ Floating(board0) /\ board # board0 /\ ~Full(board)

\* C30: for every board, find_matching_gems of pygame_gem.py returns the list
\* of groups that find_matching_gems of main.py returns: the same groups with
\* the same cells in the same order.
C30_SameGroupsAsOriginal ==
    (outcome = "found" /\ impl = "pygame_gem") =>
        matched_gems = main_find_matching_gems(board0)

====
